---------------------------- MODULE Spec2Model ----------------------------
(***************************************************************************)
(* Model of signal_generator (src/signal_generator/__init__.py): the       *)
(* configuration object, main() with its five synthesis branches, and the  *)
(* coherent-frequency search get_coherent_fin() with is_prime().           *)
(*                                                                         *)
(* Python floats are modelled as exact rationals <<num, den>> (den > 0,    *)
(* lowest terms), so every timestamp is computed with the arithmetic the   *)
(* source writes, without rounding.  The value column of the sine and      *)
(* band-pass-noise outputs (sin(), FIR-filtered noise) is carried as the   *)
(* symbolic sample index <<"sig", k>>; pulse and sawtooth values are       *)
(* computed.                                                               *)
(***************************************************************************)
EXTENDS Integers, Sequences, FiniteSets, TLC

\* ------------------------------------------------------------------ bounds
MaxNsamp == 2
MaxExtra == 1
MaxOsr == 2
MaxCalls == 2
JitterLen == 2
MaxFin == 20
MaxCohNsamp == 4

\* ------------------------------------------------------- exact rationals
Abs(x) == IF x < 0 THEN -x ELSE x

\* Euclid's algorithm, as a function so that its arguments are values
GCD[a \in Nat, b \in Nat] == IF b = 0 THEN a ELSE GCD[b, a % b]

\* n/d in lowest terms with a positive denominator (d # 0)
Q(n, d) ==
    LET s == IF d < 0 THEN -1 ELSE 1
        g == GCD[Abs(n), Abs(d)]
    IN  <<(s * n) \div g, (s * d) \div g>>

QInt(n) == <<n, 1>>
Zero == <<0, 1>>
QAdd(a, b) == Q(a[1] * b[2] + b[1] * a[2], a[2] * b[2])
QSub(a, b) == Q(a[1] * b[2] - b[1] * a[2], a[2] * b[2])
QMul(a, b) == Q(a[1] * b[1], a[2] * b[2])
QDiv(a, b) == Q(a[1] * b[2], a[2] * b[1])
QLt(a, b) == a[1] * b[2] < b[1] * a[2]
QLe(a, b) == a[1] * b[2] <= b[1] * a[2]
QFloor(a) == a[1] \div a[2]
QCeil(a) == -((-a[1]) \div a[2])
\* np.mod(a, b) for b > 0
QMod(a, b) == QSub(a, QMul(b, QInt(QFloor(QDiv(a, b)))))

\* ------------------------------------------------ Python values (subset)
\* The operand kinds that reach phase_from_delay: int, float and list.
PyInt(n) == [ty |-> "int", q |-> QInt(n), l |-> <<>>]
PyFloat(q) == [ty |-> "float", q |-> q, l |-> <<>>]
PyList(l) == [ty |-> "list", q |-> Zero, l |-> l]
PyTypeError == [ty |-> "TypeError", q |-> Zero, l |-> <<>>]

RECURSIVE SeqRepeat(_, _)
SeqRepeat(l, n) == IF n <= 0 THEN <<>> ELSE l \o SeqRepeat(l, n - 1)

\* Python's a * b: numbers multiply, int * list repeats the list (a count
\* <= 0 gives []), float * list raises TypeError.
PyMul(a, b) ==
    IF a.ty = "TypeError" \/ b.ty = "TypeError" THEN PyTypeError
    ELSE IF a.ty = "list" /\ b.ty = "list" THEN PyTypeError
    ELSE IF a.ty = "list"
         THEN IF b.ty = "int" THEN PyList(SeqRepeat(a.l, b.q[1])) ELSE PyTypeError
    ELSE IF b.ty = "list"
         THEN IF a.ty = "int" THEN PyList(SeqRepeat(b.l, a.q[1])) ELSE PyTypeError
    ELSE IF a.ty = "int" /\ b.ty = "int" THEN [ty |-> "int", q |-> QMul(a.q, b.q), l |-> <<>>]
    ELSE PyFloat(QMul(a.q, b.q))

\* ------------------------------------------------------------- is_prime
\* int(np.sqrt(n)) for n >= 0
ISqrt(n) == CHOOSE r \in 0..n : r * r <= n /\ (r + 1) * (r + 1) > n

\* is_prime (lines 226-229): even n > 2 rejected, then trial division by
\* the odd numbers 3, 5, ... up to int(sqrt(n)).
is_prime(n) ==
    IF n % 2 = 0 /\ n > 2 THEN FALSE
    ELSE \A i \in 3..ISqrt(n) : (i % 2 = 1) => (n % i # 0)

\* ------------------------------------------------------ get_coherent_fin
InitialMaxprime == 32

\* primes[np.where(primes >= window)[0][0]] with primes = np.extract(foo(a), a)
\* and a = np.arange(1, maxprime): the first a in 1..maxprime-1, from n on,
\* that is_prime accepts; 0 when there is none (the indexing raises).
FirstPrime[n \in Nat, maxprime \in Nat] ==
    IF n >= maxprime THEN 0
    ELSE IF n >= 1 /\ is_prime(n) THEN n
    ELSE FirstPrime[n + 1, maxprime]

\* window = np.floor(nsamp*fin/fs)
Window(fs, fin, nsamp) == QFloor(QDiv(QMul(QInt(nsamp), fin), fs))

\* One pass of the try block (lines 236-243): the prime found, or 0.
Search(maxprime, fs, fin, nsamp) ==
    LET w == Window(fs, fin, nsamp)
    IN  FirstPrime[IF w < 1 THEN 1 ELSE w, maxprime]

\* An except branch that leaves the ceiling as it is.
NoGrowth(maxprime) == maxprime

\* except: maxprime *= 2
NextCeiling(maxprime) == maxprime * 2

\* ratio*fs with ratio = window/nsamp
CoherentFreq(p, fs, nsamp) == QMul(Q(p, nsamp), fs)

\* The whole retry loop as a function of its inputs.
RECURSIVE CoherentLoop(_, _, _, _)
CoherentLoop(maxprime, fs, fin, nsamp) ==
    IF Search(maxprime, fs, fin, nsamp) # 0
    THEN CoherentFreq(Search(maxprime, fs, fin, nsamp), fs, nsamp)
    ELSE CoherentLoop(NextCeiling(maxprime), fs, fin, nsamp)

get_coherent_fin(fs, fin, nsamp) == CoherentLoop(InitialMaxprime, fs, fin, nsamp)


\* --------------------------------------------------------------- state
VARIABLES
    sigtype, sig_freq, sig_amp, sig_cm, sig_phase, tau, sig_osr, nsamp,
    extra_sampl, fs, coherent, jitter_sd, high, low, after, duty, trise,
    tfall, slopetype,   \* the attributes set in __init__ (lines 85-105)
    Data,               \* IOS.Members['out'].Data
    status,             \* how the last main() ended
    calls,              \* number of run() calls made
    jitter,             \* main()'s local jitter vector of the last pulse call
    warned,             \* the last call logged the negative-timestamp warning
    phases,             \* main()'s local phase, per tone, of the last sine call
    nsamp0, extra0,     \* nsamp and extra_sampl as configured
    rows1,              \* the rows of the first completed call
    cf_pc, cf_fs, cf_fin, cf_nsamp, maxprime, cf_result
                        \* get_coherent_fin run step by step

cfgvars == <<sigtype, sig_phase, tau, extra_sampl, fs, coherent, jitter_sd,
             high, low, after, duty, trise, tfall, slopetype, nsamp0, extra0>>
cohvars == <<cf_pc, cf_fs, cf_fin, cf_nsamp, maxprime, cf_result>>
vars == <<sigtype, sig_freq, sig_amp, sig_cm, sig_phase, tau, sig_osr, nsamp,
          extra_sampl, fs, coherent, jitter_sd, high, low, after, duty, trise,
          tfall, slopetype, Data, status, calls, jitter, warned, phases,
          nsamp0, extra0, rows1,
          cf_pc, cf_fs, cf_fin, cf_nsamp, maxprime, cf_result>>

\* ------------------------------------------------------- configurations
Supported == {"sine", "sine_samp", "bpnoise", "pulse", "sawtooth"}
SigTypes == Supported \cup {"square"}

None == <<>>
Scalar(q) == [islist |-> FALSE, v |-> <<q>>]
List(l) == [islist |-> TRUE, v |-> l]

FsValues == {QInt(1), QInt(4)}
FreqConfigs == {Scalar(QInt(1)), Scalar(QInt(3)), List(<<QInt(1), QInt(3)>>)}
AfterValues == {Zero, Q(1, 2), Q(-1, 4)}
TauValues == {PyInt(0), PyFloat(Q(1, 4)), PyInt(1)}
PhaseValues == {Zero, QInt(90)}
JitterSdValues == {None, Zero, Q(1, 8)}
JitterValues == {Q(-1, 8), Q(1, 8)}
DutyValues == {Q(1, 2), QInt(1)}
TriseValues == {Zero, Q(1, 8), QInt(1)}
TfallValues == {Zero, Q(1, 8)}
SlopeTypes == {"rising", "falling"}

\* An attribute a signal type never reads stays at the first value.
Pick(types, S, dflt) == IF sigtype \in types THEN S ELSE {dflt}

NoData == [valid |-> FALSE, rows |-> <<>>]

CoherentIdle ==
    /\ cf_pc = "idle" /\ cf_fs = QInt(1) /\ cf_fin = Zero /\ cf_nsamp = 1
    /\ maxprime = InitialMaxprime /\ cf_result = Zero

\* __init__ (lines 82-115) followed by the caller's attribute assignments
\* (as in lines 285-297), before the first run().
Init ==
    /\ sigtype \in SigTypes
    /\ sig_freq \in Pick(Supported \ {"bpnoise"}, FreqConfigs, Scalar(QInt(1)))
    /\ sig_amp = Scalar(Q(1, 2))
    /\ sig_cm = Scalar(Zero)
    /\ sig_phase \in Pick({"sine", "sine_samp"}, PhaseValues, Zero)
    /\ tau \in Pick({"sine", "sine_samp"}, TauValues, PyInt(0))
    /\ sig_osr \in Pick(Supported \ {"pulse"}, 1..MaxOsr, 1)
    /\ nsamp \in Pick(Supported, 1..MaxNsamp, 1)
    /\ extra_sampl \in Pick(Supported, 0..MaxExtra, 0)
    /\ fs \in Pick(Supported \ {"pulse"}, FsValues, QInt(1))
    /\ coherent \in Pick({"sine", "sine_samp"}, BOOLEAN, FALSE)
    /\ jitter_sd \in Pick({"pulse"}, JitterSdValues, None)
    /\ high = QInt(1)
    /\ low = Zero
    /\ after \in Pick(Supported, AfterValues, Zero)
    /\ duty \in Pick({"pulse"}, DutyValues, Q(1, 2))
    /\ trise \in Pick({"pulse", "sine_samp"}, TriseValues, Zero)
    /\ tfall \in Pick({"pulse"}, TfallValues, Zero)
    /\ slopetype \in Pick({"sawtooth"}, SlopeTypes, "rising")
    /\ Data = NoData
    /\ status = "idle"
    /\ calls = 0
    /\ jitter = <<>>
    /\ warned = FALSE
    /\ phases = <<>>
    /\ nsamp0 = nsamp
    /\ extra0 = extra_sampl
    /\ rows1 = <<>>
    /\ CoherentIdle

\* ------------------------------------------------------------ helpers
\* np.linspace(0, stop, num=num, endpoint=False)
Linspace(stop, num) ==
    [k \in 1..num |-> QMul(QInt(k - 1), QDiv(stop, QInt(num)))]

\* np.arange(0, stop, step): ceil(stop/step) points
Arange(stop, step) ==
    [k \in 1..QCeil(QDiv(stop, step)) |-> QMul(QInt(k - 1), step)]

\* lines 124-129: a scalar attribute is wrapped into a one-element list
AsList(x) == IF x.islist THEN x ELSE List(x.v)

\* lines 131-136: list(np.ones(len(sig_freq)) * x[0]) on a length mismatch
Broadcast(x, n) == IF Len(x.v) = n THEN x ELSE List([k \in 1..n |-> x.v[1]])

\* Anchor without the np.vstack: the anchor row is never prepended.
NoAnchor(v, outmat) == outmat

\* np.vstack([(0, v), outmat]) when after != 0 (lines 169-170, 204-205)
Anchor(v, outmat) == IF after # Zero THEN <<<<Zero, v>>>> \o outmat ELSE outmat

\* ------------------------------------------------------ phase_from_delay
\* line 250: -360*self.sig_freq*self.tau, evaluated left to right on the
\* attribute as it is stored (main() has made it a list by then).
phase_from_delay(freq, t) ==
    PyMul(PyMul(PyInt(-360), IF freq.islist THEN PyList(freq.v) ELSE PyFloat(freq.v[1])), t)

\* phase*np.pi/180 inside lines 151/153; only whether the product is defined
\* matters here (np.pi is a float, its value is not used by the model).
PhaseTerm(phase) == PyMul(phase, PyFloat(Q(355, 113)))

\* The loop of lines 139-153 from tone i on: the frequency list after the
\* in-place coherent resolution, the phase of each tone, and whether the
\* body raised.
RECURSIVE SineLoop(_, _, _)
SineLoop(i, freq, ph) ==
    IF i > Len(freq) THEN [freq |-> freq, phases |-> ph, err |-> FALSE]
    ELSE LET f1 == IF coherent
                   THEN [freq EXCEPT ![i] = get_coherent_fin(fs, freq[i], nsamp)]
                   ELSE freq
             phase == IF tau.q = Zero THEN PyFloat(sig_phase)
                      ELSE phase_from_delay(List(f1), tau)
         IN  IF PhaseTerm(phase).ty = "TypeError"
             THEN [freq |-> f1, phases |-> ph, err |-> TRUE]
             ELSE SineLoop(i + 1, f1, Append(ph, phase.q))

\* --------------------------------------------------------------- main()
\* Bookkeeping shared by every branch that reaches line 224.
Store(outmat) ==
    /\ Data' = [valid |-> TRUE, rows |-> outmat]
    /\ status' = "ok"
    /\ rows1' = IF rows1 = <<>> THEN outmat ELSE rows1

\* A branch that raises before line 224.
Raise(what) ==
    /\ Data' = Data
    /\ status' = what
    /\ rows1' = rows1

CanRun == calls < MaxCalls /\ status # "fatal"

\* lines 121-170: 'sine' and 'sine_samp'
MainSine ==
    /\ CanRun
    /\ sigtype \in {"sine", "sine_samp"}
    /\ LET osr == IF sigtype = "sine_samp" /\ sig_osr # 1 THEN 1 ELSE sig_osr
           freq0 == AsList(sig_freq)
           amp == Broadcast(AsList(sig_amp), Len(freq0.v))
           cm == Broadcast(AsList(sig_cm), Len(freq0.v))
           loop == SineLoop(1, freq0.v, <<>>)
           n == nsamp + extra_sampl
           tvec == Linspace(QDiv(QInt(n), fs), n * osr)
           sine == [k \in 1..(n * osr) |-> <<QAdd(tvec[k], after), <<"sig", k - 1>>>>]
           ts == Arange(QDiv(QInt(n), fs), QDiv(QInt(1), fs))
           t0(k) == QAdd(ts[k], after)
           samp == [j \in 1..(2 * n) |->
                      LET k == (j + 1) \div 2
                      IN  IF j % 2 = 1 THEN <<t0(k), sine[k][2]>>
                          ELSE <<QSub(QAdd(t0(k), QDiv(QInt(1), fs)), trise), sine[k][2]>>]
       IN  /\ sig_osr' = osr
           /\ sig_freq' = List(loop.freq)
           /\ sig_amp' = amp
           /\ sig_cm' = cm
           /\ phases' = loop.phases
           /\ IF loop.err THEN Raise("TypeError")
              ELSE IF sigtype = "sine" THEN Store(sine)
              ELSE IF Len(ts) # n \/ Len(sine) # n THEN Raise("ValueError")
              ELSE Store(Anchor(sine[1][2], samp))
    /\ calls' = calls + 1
    /\ UNCHANGED <<cfgvars, nsamp, jitter, warned, cohvars>>

\* lines 171-184: 'bpnoise'
MainBpnoise ==
    /\ CanRun
    /\ sigtype = "bpnoise"
    /\ LET n == nsamp + extra_sampl
           tvec == Linspace(QDiv(QInt(n), fs), n * sig_osr)
       IN  /\ nsamp' = n
           /\ Store([k \in 1..(n * sig_osr) |-> <<QAdd(tvec[k], after), <<"sig", k - 1>>>>])
    /\ calls' = calls + 1
    /\ UNCHANGED <<cfgvars, sig_freq, sig_amp, sig_cm, sig_osr, jitter, warned, phases, cohvars>>

\* np.random.normal(0, jitter_sd, n): the drawn vector repeats a pattern of
\* JitterLen samples.
JitterDraws(n) ==
    {[i \in 1..n |-> pat[((i - 1) % JitterLen) + 1]] : pat \in [1..JitterLen -> JitterValues]}

\* line 189: jitter[0] < 0 and abs(jitter[0] > self.after)
FirstNegativeTest(j0) == QLt(j0, Zero) /\ QLt(after, j0)

\* PulseTimes with line 202 missing its '-self.trise'.
PulseTimesKeepRise(base, jit, k) ==
    LET r0 == QAdd(QAdd(base[k], after), jit[2 * k - 1])
        r1 == QAdd(QAdd(r0, trise), jit[2 * k - 1])
        r2 == QAdd(QAdd(r1, QDiv(duty, sig_freq.v[1])), jit[2 * k])
        r3 == QAdd(QAdd(r2, tfall), jit[2 * k])
    IN  <<r0, r1, r2, r3>>

\* PulseTimes with line 203 subtracting tfall.
PulseTimesFallSign(base, jit, k) ==
    LET r0 == QAdd(QAdd(base[k], after), jit[2 * k - 1])
        r1 == QAdd(QAdd(r0, trise), jit[2 * k - 1])
        r2 == QAdd(QSub(QAdd(r1, QDiv(duty, sig_freq.v[1])), trise), jit[2 * k])
        r3 == QAdd(QSub(r2, tfall), jit[2 * k])
    IN  <<r0, r1, r2, r3>>

\* lines 200-203: the four timestamps of period k (from 1), each built on
\* the previous one
PulseTimes(base, jit, k) ==
    LET r0 == QAdd(QAdd(base[k], after), jit[2 * k - 1])
        r1 == QAdd(QAdd(r0, trise), jit[2 * k - 1])
        r2 == QAdd(QSub(QAdd(r1, QDiv(duty, sig_freq.v[1])), trise), jit[2 * k])
        r3 == QAdd(QAdd(r2, tfall), jit[2 * k])
    IN  <<r0, r1, r2, r3>>

\* lines 195-198: low, high, high, low
PulseLevels == <<low, high, high, low>>

\* line 186: if self.jitter_sd (None and 0 are both falsy)
JitterEnabled == jitter_sd # None /\ jitter_sd # Zero

\* lines 185-205: 'pulse'
MainPulse ==
    /\ CanRun
    /\ sigtype = "pulse"
    /\ LET n == nsamp + extra_sampl
           enabled == JitterEnabled
       IN  \E jit \in (IF enabled THEN JitterDraws(2 * n) ELSE {[i \in 1..(2 * n) |-> Zero]}) :
             /\ jitter' = jit
             /\ warned' = (enabled /\ FirstNegativeTest(jit[1]))
             /\ IF sig_freq.islist THEN Raise("TypeError")
                ELSE LET base == Arange(QDiv(QInt(n), sig_freq.v[1]), QDiv(QInt(1), sig_freq.v[1]))
                         outmat == [j \in 1..(4 * n) |->
                                      LET k == (j + 3) \div 4
                                          c == ((j - 1) % 4) + 1
                                      IN  <<PulseTimes(base, jit, k)[c], PulseLevels[c]>>]
                     IN  IF Len(base) # n THEN Raise("ValueError")
                         ELSE Store(Anchor(low, outmat))
    /\ calls' = calls + 1
    /\ UNCHANGED <<cfgvars, sig_freq, sig_amp, sig_cm, sig_osr, nsamp, phases, cohvars>>

\* lines 211-218: one sawtooth sample
SawValue(t) ==
    LET f == sig_freq.v[1]
        ramp == QMul(QMod(t, QDiv(QInt(1), f)), f)
        centred == IF slopetype = "falling" THEN QSub(Q(1, 2), ramp) ELSE QSub(ramp, Q(1, 2))
    IN  QAdd(QMul(centred, sig_amp.v[1]), sig_cm.v[1])

\* lines 206-220: 'sawtooth'
MainSawtooth ==
    /\ CanRun
    /\ sigtype = "sawtooth"
    /\ LET n == nsamp + extra_sampl
           tvec == Linspace(QDiv(QInt(nsamp), fs), n * sig_osr)
       IN  IF sig_freq.islist THEN Raise("TypeError")
           ELSE Store([k \in 1..(n * sig_osr) |-> <<QAdd(tvec[k], after), SawValue(tvec[k])>>])
    /\ calls' = calls + 1
    /\ UNCHANGED <<cfgvars, sig_freq, sig_amp, sig_cm, sig_osr, nsamp, jitter, warned, phases, cohvars>>

\* lines 221-224: any other signal type.  print_log(type='F') ends the
\* program; were it to return, line 224 would raise on the unbound outmat.
\* Either way line 224 assigns nothing.
\* The else branch falling through to line 224 with an empty outmat.
UnsupportedStores == Store(<<>>)
UnsupportedOutcome == Raise("fatal")

MainUnsupported ==
    /\ CanRun
    /\ sigtype \notin Supported
    /\ UnsupportedOutcome
    /\ calls' = calls + 1
    /\ UNCHANGED <<cfgvars, sig_freq, sig_amp, sig_cm, sig_osr, nsamp, jitter, warned, phases, cohvars>>

\* run() (lines 253-257) with model = 'py'
run == MainSine \/ MainBpnoise \/ MainPulse \/ MainSawtooth \/ MainUnsupported

Next == run

Spec == Init /\ [][Next]_vars

\* ------------------------------------- get_coherent_fin, step by step
\* The object as __init__ leaves it, while get_coherent_fin is studied alone.
DefaultObject ==
    /\ sigtype = "sine"
    /\ sig_freq = Scalar(QInt(1)) /\ sig_amp = Scalar(Q(1, 2)) /\ sig_cm = Scalar(Zero)
    /\ sig_phase = Zero /\ tau = PyInt(0) /\ sig_osr = 1
    /\ nsamp = 1 /\ extra_sampl = 0 /\ fs = QInt(1)
    /\ coherent = FALSE /\ jitter_sd = None
    /\ high = QInt(1) /\ low = Zero /\ after = Zero
    /\ duty = Q(1, 2) /\ trise = Zero /\ tfall = Zero /\ slopetype = "rising"
    /\ Data = NoData /\ status = "idle" /\ calls = 0
    /\ jitter = <<>> /\ warned = FALSE /\ phases = <<>>
    /\ nsamp0 = nsamp /\ extra0 = extra_sampl /\ rows1 = <<>>

objvars == <<sigtype, sig_freq, sig_amp, sig_cm, sig_phase, tau, sig_osr, nsamp,
             extra_sampl, fs, coherent, jitter_sd, high, low, after, duty, trise,
             tfall, slopetype, Data, status, calls, jitter, warned, phases,
             nsamp0, extra0, rows1>>

\* lines 232-233: a call get_coherent_fin(fs, fin, nsamp)
InitCoherent ==
    /\ DefaultObject
    /\ cf_pc = "search"
    /\ cf_fs \in FsValues
    /\ cf_fin \in {QInt(n) : n \in 0..MaxFin}
    /\ cf_nsamp \in 1..MaxCohNsamp
    /\ maxprime = InitialMaxprime
    /\ cf_result = Zero

\* lines 235-243 and 247: the try block finds a prime and the loop ends
CoherentFound ==
    /\ cf_pc = "search"
    /\ Search(maxprime, cf_fs, cf_fin, cf_nsamp) # 0
    /\ cf_result' = CoherentFreq(Search(maxprime, cf_fs, cf_fin, cf_nsamp), cf_fs, cf_nsamp)
    /\ cf_pc' = "done"
    /\ UNCHANGED <<objvars, cf_fs, cf_fin, cf_nsamp, maxprime>>

\* lines 244-245: the indexing raised, the ceiling grows and the loop repeats
CoherentRetry ==
    /\ cf_pc = "search"
    /\ Search(maxprime, cf_fs, cf_fin, cf_nsamp) = 0
    /\ maxprime' = NextCeiling(maxprime)
    /\ UNCHANGED <<objvars, cf_fs, cf_fin, cf_nsamp, cf_pc, cf_result>>

NextCoherent == CoherentFound \/ CoherentRetry

\* The loop is sequential code: it keeps running while it can.
SpecCoherent == InitCoherent /\ [][NextCoherent]_vars /\ WF_vars(NextCoherent)

\* ================================================================ claims
IsPrimeNumber(n) == n >= 2 /\ \A d \in 2..(n - 1) : n % d # 0
SmallestPrimeFrom(w) == CHOOSE p \in w..(2 * w + 2) :
                            IsPrimeNumber(p) /\ \A r \in w..(p - 1) : ~IsPrimeNumber(r)
Times(rows) == [i \in 1..Len(rows) |-> rows[i][1]]
PulseOk == sigtype = "pulse" /\ status = "ok"
Periods == nsamp + extra_sampl
Off == IF after # Zero THEN 1 ELSE 0
\* The jitter-free timestamps of vertex c (1..4) of period k (from 0)
Ideal(k, c) ==
    LET t0 == QAdd(QDiv(QInt(k), sig_freq.v[1]), after)
        tf == QAdd(t0, QDiv(duty, sig_freq.v[1]))
    IN  <<t0, QAdd(t0, trise), tf, QAdd(tf, tfall)>>[c]
Vertex(k, c) == Data.rows[Off + 4 * k + c]

\* C1: get_coherent_fin returns (p/nsamp)*fs with p the smallest prime number
\* >= floor(nsamp*fin/fs), also when that floor is 0 or 1.
C1_SmallestPrime ==
    cf_pc = "done" =>
        cf_result = QMul(Q(SmallestPrimeFrom(Window(cf_fs, cf_fin, cf_nsamp)), cf_nsamp), cf_fs)

\* C2: with an unsupported signal type main() ends in the fatal outcome and
\* the output Data is not assigned.
C2_UnsupportedFatal ==
    (sigtype \notin Supported /\ calls > 0) => (status = "fatal" /\ Data = NoData)

C2_Witness == sigtype \notin Supported /\ calls = 1 /\ status = "fatal"

C4_PhaseFromDelay ==
    (sigtype \in {"sine", "sine_samp"} /\ calls > 0) =>
        IF tau.q # Zero
        THEN /\ status = "ok" /\ Data.valid
             /\ Len(phases) = Len(sig_freq.v)
             /\ \A i \in 1..Len(phases) :
                    phases[i] = QMul(QMul(QInt(-360), sig_freq.v[i]), tau.q)
        ELSE \A i \in 1..Len(phases) : phases[i] = sig_phase

\* C5: a pulse without jitter has, for every period k, the vertices
\* (k/f+after, low), (k/f+after+trise, high), (k/f+after+duty/f, high),
\* (k/f+after+duty/f+tfall, low), in that order.
C5_PulseVertices ==
    (PulseOk /\ ~JitterEnabled) =>
        /\ Len(Data.rows) = 4 * Periods + Off
        /\ \A k \in 0..(Periods - 1) : \A c \in 1..4 :
               Vertex(k, c) = <<Ideal(k, c), <<low, high, high, low>>[c]>>

C5_Witness ==
    /\ PulseOk /\ jitter_sd = Zero /\ Periods >= 2 /\ trise # Zero /\ after # Zero
    /\ Vertex(1, 3)[1] = QAdd(Vertex(0, 3)[1], QDiv(QInt(1), sig_freq.v[1]))

\* C6: with jitter disabled, after >= 0, 0 <= trise <= duty/f and
\* 0 <= tfall <= (1-duty)/f the pulse timestamps are non-decreasing in row
\* order, the anchor row included.
C6_Precondition ==
    /\ ~JitterEnabled
    /\ QLe(Zero, after)
    /\ QLe(Zero, trise) /\ QLe(trise, QDiv(duty, sig_freq.v[1]))
    /\ QLe(Zero, tfall) /\ QLe(tfall, QDiv(QSub(QInt(1), duty), sig_freq.v[1]))

C6_Monotone ==
    (PulseOk /\ C6_Precondition) =>
        \A i \in 1..(Len(Data.rows) - 1) : QLe(Data.rows[i][1], Data.rows[i + 1][1])

C6_Witness ==
    /\ PulseOk /\ C6_Precondition /\ after # Zero /\ Periods >= 2
    /\ tfall # Zero /\ trise # Zero
    /\ Len(Data.rows) = 4 * Periods + 1

\* C7: get_coherent_fin terminates: the search that starts at a ceiling of 32
\* and doubles it after each failed pass ends with a result.
C7_Terminates == <>(cf_pc = "done")

C7_Witness == cf_pc = "done" /\ maxprime = 4 * InitialMaxprime

\* C8: after any run() calls nsamp and extra_sampl hold their configured
\* values, and a completed call without jitter has the rows and timestamps of
\* the first one.
C8_Independent ==
    calls > 0 =>
        /\ nsamp = nsamp0 /\ extra_sampl = extra0
        /\ (status = "ok" /\ ~JitterEnabled) => Times(Data.rows) = Times(rows1)

\* C9: with jitter, the rise-start and rise-end of period k are shifted by
\* jr_k, the fall-start and fall-end by jf_k, from the jitter-free timestamps.
C9_JitterOnce ==
    (PulseOk /\ JitterEnabled) =>
        \A k \in 0..(Periods - 1) :
            /\ Vertex(k, 1)[1] = QAdd(Ideal(k, 1), jitter[2 * k + 1])
            /\ Vertex(k, 2)[1] = QAdd(Ideal(k, 2), jitter[2 * k + 1])
            /\ Vertex(k, 3)[1] = QAdd(Ideal(k, 3), jitter[2 * k + 2])
            /\ Vertex(k, 4)[1] = QAdd(Ideal(k, 4), jitter[2 * k + 2])

\* C10: with jitter and after >= 0 the negative-first-timestamp warning is
\* logged exactly when after + jitter[0] < 0.
C10_WarnsWhenNegative ==
    (sigtype = "pulse" /\ calls > 0 /\ JitterEnabled /\ QLe(Zero, after)) =>
        (warned <=> QLt(QAdd(after, jitter[1]), Zero))

=============================================================================
